---- MODULE Spec2Model ----
(***************************************************************************)
(* Model of find_policy_in_s3.py: a streaming scan of S3 .txt objects for  *)
(* policy numbers in columns 6-23, fanned out over a thread pool with a    *)
(* bounded table of in-flight futures.                                     *)
(*                                                                         *)
(* Text is modelled as sequences of one-character strings.                 *)
(***************************************************************************)
EXTENDS Integers, Sequences, FiniteSets, TLC

(***************************************************************************)
(* Bounds of the model.                                                    *)
(***************************************************************************)
\* largest S3_SCAN_WORKERS value explored
MaxWorkers == 2
\* most entries a listing returns
MaxEntries == 9
\* entries per listing page
PageSize == 2
\* the sample stores start at templates 1 .. MaxShift + 1
MaxShift == 2
\* most lines of a stream explored for the scanner on its own
MaxLines == 3
\* most characters of the generated answers to the policy prompt
MaxRaw == 3

(***************************************************************************)
(* Program constants.                                                      *)
(***************************************************************************)
\* POLICY_SLICE = slice(5, 23)
POLICY_SLICE_start == 5
POLICY_SLICE_stop == 23
\* inflight_limit = max_workers * 4
InflightFactor == 4

(***************************************************************************)
(* Strings.                                                                *)
(***************************************************************************)
\* Characters str.strip() removes at both ends.
Whitespace == {" ", "\t", "\n", "\r"}

\* n copies of the character c
Rep(c, n) == [i \in 1..n |-> c]

\* Strings: the recursive helpers are functions of the string.
Text == Seq(STRING)

LStrip[s \in Text] ==
    IF s # <<>> /\ Head(s) \in Whitespace THEN LStrip[Tail(s)] ELSE s

RStrip[s \in Text] ==
    IF s # <<>> /\ s[Len(s)] \in Whitespace
    THEN RStrip[SubSeq(s, 1, Len(s) - 1)]
    ELSE s

\* str.strip()
Strip(s) == RStrip[LStrip[s]]

\* str.replace(old, new) for a one-character old and a string new
Replace(s, old, new) ==
    LET R[t \in Text] ==
            IF t = <<>> THEN <<>>
            ELSE (IF Head(t) = old THEN new ELSE <<Head(t)>>) \o R[Tail(t)]
    IN R[s]

\* str.split(sep) for a one-character sep: always at least one part
Split(s, sep) ==
    LET SplitAcc[t \in Text, cur \in Text] ==
            IF t = <<>> THEN <<cur>>
            ELSE IF Head(t) = sep THEN <<cur>> \o SplitAcc[Tail(t), <<>>]
            ELSE SplitAcc[Tail(t), Append(cur, Head(t))]
    IN SplitAcc[s, <<>>]

\* str.lower() on the letters the keys use
LowerChar(c) ==
    CASE c = "T" -> "t"
      [] c = "X" -> "x"
      [] OTHER -> c

Lower(s) == [i \in 1..Len(s) |-> LowerChar(s[i])]

\* str.endswith(suffix)
EndsWith(s, suffix) ==
    /\ Len(s) >= Len(suffix)
    /\ SubSeq(s, Len(s) - Len(suffix) + 1, Len(s)) = suffix

\* The elements of a sequence.
Range(s) == {s[i] : i \in 1..Len(s)}

(***************************************************************************)
(* Field extraction.                                                       *)
(***************************************************************************)
\* Python's None, distinct from every string of characters.
None == <<"None">>

normalize_policy(s) == Replace(Strip(s), " ", <<>>)

\* policy_in_line with the slice one column to the left.
policy_in_line_Shifted(line) ==
    IF Len(line) < POLICY_SLICE_stop THEN None
    ELSE normalize_policy(SubSeq(line, POLICY_SLICE_start, POLICY_SLICE_stop - 1))

policy_in_line(line) ==
    IF Len(line) < POLICY_SLICE_stop THEN None
    ELSE normalize_policy(SubSeq(line, POLICY_SLICE_start + 1, POLICY_SLICE_stop))

(***************************************************************************)
(* Decoding of a raw line: bytes.decode("utf-8", errors="replace").        *)
(* Bytes are ASCII characters, or the two bytes "C3" "A9" of U+00E9; a     *)
(* byte that does not continue a valid sequence becomes U+FFFD.            *)
(***************************************************************************)
DecodeBytes[raw \in Text] ==
    IF raw = <<>> THEN <<>>
    ELSE IF Head(raw) = "C3" /\ Len(raw) >= 2 /\ raw[2] = "A9"
         THEN <<"U+00E9">> \o DecodeBytes[Tail(Tail(raw))]
    ELSE IF Head(raw) \in {"C3", "A9"}
         THEN <<"U+FFFD">> \o DecodeBytes[Tail(raw)]
    ELSE <<Head(raw)>> \o DecodeBytes[Tail(raw)]

decode(raw) == DecodeBytes[raw]

(***************************************************************************)
(* The object scanner.  An object of the store is a record                 *)
(*   key      : its key                                                    *)
(*   lines    : the raw lines its body yields                              *)
(*   err      : TRUE if reading fails once those lines were produced (with *)
(*              no lines: get_object itself fails)                         *)
(*   printErr : TRUE if printing the progress line for the key fails       *)
(* A call returns [raised |-> FALSE, value |-> set] or raises              *)
(* ([raised |-> TRUE, value |-> {}]).                                      *)
(***************************************************************************)
\* ScanLoop without the lag: each line is evaluated as it is read.
ScanLoop_NoLag(it, prev, found, want_set) ==
    LET Loop[rest \in Seq(Text), f \in SUBSET Text] ==
            IF rest = <<>> THEN f
            ELSE LET p == policy_in_line(decode(Head(rest)))
                 IN Loop[Tail(rest),
                         IF p # None /\ p \in want_set THEN f \cup {p} ELSE f]
    IN Loop[it, found]

\* for raw in it: ... (lines 54-62); the value of found when the loop ends
ScanLoop(it, prev, found, want_set) ==
    LET Loop[rest \in Seq(Text), pending \in Text, f \in SUBSET Text] ==
            IF rest = <<>> THEN f
            ELSE LET line == decode(Head(rest))
                     p == IF pending # None THEN policy_in_line(pending) ELSE None
                 IN Loop[Tail(rest), line,
                         IF pending # None /\ p # None /\ p \in want_set
                         THEN f \cup {p}
                         ELSE f]
    IN Loop[it, prev, found]

\* The scanner evaluating every line of the body, the first and last included.
object_matching_policies_streaming_AllLines(obj, want_set) ==
    IF obj.printErr THEN [raised |-> TRUE, value |-> {}]
    ELSE [raised |-> FALSE,
          value |-> IF obj.err THEN {}
                    ELSE {k \in want_set :
                            \E i \in 1..Len(obj.lines) :
                                policy_in_line(decode(obj.lines[i])) = k}]

\* The scanner returning what it found before reading failed.
object_matching_policies_streaming_Partial(obj, want_set) ==
    IF obj.printErr THEN [raised |-> TRUE, value |-> {}]
    ELSE IF obj.lines = <<>> THEN [raised |-> FALSE, value |-> {}]
    ELSE [raised |-> FALSE,
          value |-> ScanLoop(Tail(obj.lines), None, {}, want_set)]

\* The scanner without its except clauses: a failed read raises.
object_matching_policies_streaming_Uncaught(obj, want_set) ==
    IF obj.printErr \/ obj.err THEN [raised |-> TRUE, value |-> {}]
    ELSE IF obj.lines = <<>> THEN [raised |-> FALSE, value |-> {}]
    ELSE [raised |-> FALSE,
          value |-> ScanLoop(Tail(obj.lines), None, {}, want_set)]

object_matching_policies_streaming(obj, want_set) ==
    IF obj.printErr THEN [raised |-> TRUE, value |-> {}]
    ELSE IF obj.lines = <<>> THEN [raised |-> FALSE, value |-> {}]
    ELSE LET found == ScanLoop(Tail(obj.lines), None, {}, want_set)
         IN [raised |-> FALSE, value |-> IF obj.err THEN {} ELSE found]

(***************************************************************************)
(* Sample text.                                                            *)
(***************************************************************************)
K12 == <<"1", "2">>
K34 == <<"3", "4">>

\* A line: five characters, the field padded to the width of the slice,
\* and what follows it.
LineOf(prefix, field, rest) ==
    prefix \o field
           \o Rep(" ", (POLICY_SLICE_stop - POLICY_SLICE_start) - Len(field))
           \o rest

Line12 == LineOf(Rep("x", 5), K12, <<>>)
Line34 == LineOf(Rep("x", 5), K34, <<"z">>)
\* spaces inside the field
LineSp == LineOf(Rep("x", 5), <<" ", "1", " ", "2">>, <<>>)
\* shorter than the slice
LineShort == Rep("x", 5) \o K12
\* 34 before the field and 12 after it
LineOut == LineOf(<<"x", "x", "x", "3", "4">>, <<"7">>, K12)
\* a two-byte character before the field
LineE9 == LineOf(<<"C3", "A9", "x", "x", "x", "x">>, K12, <<>>)

SampleLines == {Line12, Line34, LineSp, LineShort, LineOut, LineE9}

RECURSIVE SeqsUpTo(_, _)
SeqsUpTo(S, n) ==
    IF n = 0 THEN {<<>>}
    ELSE LET shorter == SeqsUpTo(S, n - 1)
         IN shorter \cup {Append(s, x) : s \in {t \in shorter : Len(t) = n - 1}, x \in S}

(***************************************************************************)
(* Sample stores.  A store is the sequence of entries list_objects_v2      *)
(* returns for the prefix, in listing order.                               *)
(***************************************************************************)
TXT == <<".", "t", "x", "t">>

Letters == <<"a", "b", "c", "d", "e", "f", "g", "h", "i", "j", "k", "l", "m">>

\* What an entry can be, apart from its name: a key suffix, a body and the
\* failures its scan meets.
Templates == <<
    \* matches both keys
    [ext |-> TXT, lines |-> <<Line34, Line12, Line34, LineShort>>,
     err |-> FALSE, printErr |-> FALSE],
    \* the progress line cannot be printed
    [ext |-> TXT, lines |-> <<Line12, Line12, Line12>>,
     err |-> FALSE, printErr |-> TRUE],
    \* 34 in the header and the trailer only, 12 in a data line
    [ext |-> <<".", "T", "X", "T">>, lines |-> <<Line34, LineSp, Line34>>,
     err |-> FALSE, printErr |-> FALSE],
    \* reading fails after a matching data line was seen
    [ext |-> TXT, lines |-> <<LineShort, Line12, Line34>>,
     err |-> TRUE, printErr |-> FALSE],
    \* matches 34 only
    [ext |-> TXT, lines |-> <<LineShort, LineOut, Line34, LineE9>>,
     err |-> FALSE, printErr |-> FALSE],
    \* get_object fails
    [ext |-> TXT, lines |-> <<>>, err |-> TRUE, printErr |-> FALSE],
    \* no data line matches
    [ext |-> TXT, lines |-> <<Line12, LineShort, LineOut, Line12>>,
     err |-> FALSE, printErr |-> FALSE],
    \* an empty body
    [ext |-> TXT, lines |-> <<>>, err |-> FALSE, printErr |-> FALSE],
    \* a header and a trailer, no data line
    [ext |-> TXT, lines |-> <<Line12, Line34>>,
     err |-> FALSE, printErr |-> FALSE],
    \* a folder marker
    [ext |-> <<"/">>, lines |-> <<>>, err |-> FALSE, printErr |-> FALSE],
    \* not a .txt object
    [ext |-> <<".", "c", "s", "v">>, lines |-> <<Line12, Line12, Line12>>,
     err |-> FALSE, printErr |-> FALSE]
>>

\* The i-th entry of the store that starts at template shift + 1.
EntryOf(i, shift) ==
    LET t == Templates[((i - 1 + shift) % Len(Templates)) + 1]
    IN [key |-> <<Letters[i]>> \o t.ext, lines |-> t.lines,
        err |-> t.err, printErr |-> t.printErr]

\* What the user types at the prompts.
Buckets == {<<>>, <<" ">>, <<"b">>}

RawInputs == {
    <<>>,
    <<" ", ",", "\n">>,
    K12,
    K34 \o <<",">> \o K12,
    <<" ", "1", " ", "2", ",">> \o K34 \o <<"\n">> \o K12 \o <<",", " ">> \o K34
}

(***************************************************************************)
(* Input parsing.                                                          *)
(***************************************************************************)
\* for p in parts: ... (lines 85-89); the value of out when the loop ends
ParseLoop[parts \in Seq(Text), seen \in SUBSET Text, out \in Seq(Text)] ==
    IF parts = <<>> THEN out
    ELSE LET norm == normalize_policy(Strip(Head(parts)))
         IN IF norm # <<>> /\ norm \notin seen
            THEN ParseLoop[Tail(parts), seen \cup {norm}, Append(out, norm)]
            ELSE ParseLoop[Tail(parts), seen, out]

\* parse_policy_input comparing the parts as typed, before normalizing them.
parse_policy_input_RawDedupe(raw) ==
    LET parts == Split(Replace(raw, "\n", <<",">>), ",")
        F[n \in 0..Len(parts)] ==
            IF n = 0 THEN <<>>
            ELSE IF /\ normalize_policy(Strip(parts[n])) # <<>>
                    /\ \A m \in 1..(n - 1) : parts[m] # parts[n]
                 THEN Append(F[n - 1], normalize_policy(Strip(parts[n])))
                 ELSE F[n - 1]
    IN F[Len(parts)]

parse_policy_input(raw) ==
    ParseLoop[Split(Replace(raw, "\n", <<",">>), ","), {}, <<>>]

(***************************************************************************)
(* The environment: int(os.environ.get("S3_MAX_POOL", "64")).              *)
(***************************************************************************)
DigitValue(c) ==
    CASE c = "0" -> 0 [] c = "1" -> 1 [] c = "2" -> 2 [] c = "3" -> 3
      [] c = "4" -> 4 [] c = "5" -> 5 [] c = "6" -> 6 [] c = "7" -> 7
      [] c = "8" -> 8 [] c = "9" -> 9

ParseInt[s \in Text] ==
    IF s = <<>> THEN 0
    ELSE 10 * ParseInt[SubSeq(s, 1, Len(s) - 1)] + DigitValue(s[Len(s)])

\* int(s) for a string of digits
int(s) == ParseInt[s]

\* os.environ.get(name, default), given the variable's value or None
environ_get(value, default) == IF value = None THEN default ELSE value

\* "64"
DefaultMaxPool == <<"6", "4">>

\* Values of S3_MAX_POOL: unset, and two settings.
PoolEnv == {None, <<"1">>, <<"2">>}

(***************************************************************************)
(* State.                                                                  *)
(***************************************************************************)
VARIABLES
    pc,                 \* where the driving thread of main is
    bucket,             \* the bucket name read from the prompt, stripped
    policy_input,       \* the policy prompt's answer, stripped
    policy_list,        \* parse_policy_input of the policy prompt
    max_workers,        \* S3_SCAN_WORKERS
    max_pool,           \* max_pool, the client's max_pool_connections
    S3_MAX_POOL,        \* the environment's S3_MAX_POOL, None when unset
    shift,              \* which sample store the bucket holds
    store,              \* the entries the paginator has returned so far
    more,               \* TRUE while the paginator has another page to fetch
    idx,                \* entries of store the generator has gone through
    scanned,            \* the counter scanned
    futures,            \* the dict futures: its futures in insertion order
    fstate,             \* state of the future of each entry
    fresult,            \* what a finished future holds
    batch,              \* futures the running as_completed has yet to yield
    results_by_policy,  \* the dict results_by_policy
    report_lines,       \* the list report_lines
    scan_pc,            \* the scanner called on its own: where the call is
    scan_obj,           \*   the object it reads
    scan_want,          \*   its want_set
    scan_ret,           \*   what the call produced
    fn_pc,              \* a helper called on its own: which one, and where
    fn_arg,             \*   its argument
    fn_ret              \*   what it returned

vars == <<pc, bucket, policy_input, policy_list, max_workers, max_pool, S3_MAX_POOL, shift, store, more, idx, scanned,
          futures, fstate, fresult, batch, results_by_policy, report_lines,
          scan_pc, scan_obj, scan_want, scan_ret, fn_pc, fn_arg, fn_ret>>

schedVars == <<pc, bucket, policy_input, policy_list, max_workers, max_pool, S3_MAX_POOL, shift, store, more, idx,
               scanned, futures, fstate, fresult, batch, results_by_policy,
               report_lines>>

scanVars == <<scan_pc, scan_obj, scan_want, scan_ret>>

callVars == <<fn_pc, fn_arg, fn_ret>>

NoResult == [raised |-> FALSE, value |-> {}]

NoObject == [key |-> <<>>, lines |-> <<>>, err |-> FALSE, printErr |-> FALSE]

want_set == Range(policy_list)

inflight_limit == max_workers * InflightFactor

\* Futures are named by the position of their entry in the listing.
Ids == 1..MaxEntries

\* The state of main before it reads its input.
SchedInit ==
    /\ pc = "start"
    /\ bucket = <<>>
    /\ policy_input = <<>>
    /\ policy_list = <<>>
    /\ max_workers = 0
    /\ max_pool = 0
    /\ store = <<>>
    /\ more = TRUE
    /\ idx = 0
    /\ scanned = 0
    /\ futures = <<>>
    /\ fstate = [i \in Ids |-> "none"]
    /\ fresult = [i \in Ids |-> NoResult]
    /\ batch = {}
    /\ results_by_policy = <<>>
    /\ report_lines = <<>>

ScanOff ==
    /\ scan_pc = "off"
    /\ scan_obj = NoObject
    /\ scan_want = {}
    /\ scan_ret = NoResult

\* No helper is called on its own.
CallOff ==
    /\ fn_pc = "off"
    /\ fn_arg = <<>>
    /\ fn_ret = <<>>

\* main run with S3_MAX_POOL unset.
Init ==
    /\ SchedInit
    /\ S3_MAX_POOL = None
    /\ shift \in 0..MaxShift
    /\ ScanOff
    /\ CallOff

(***************************************************************************)
(* main: reading the input (lines 93-106) and setting up (lines 108-141).  *)
(***************************************************************************)
\* InputError without its returns: main goes on to the scan.
InputError_Proceeds ==
    /\ pc = "start"
    /\ \E b \in Buckets, raw \in RawInputs :
         /\ bucket' = Strip(b)
         /\ IF Strip(b) = <<>>
            THEN UNCHANGED <<policy_input, policy_list>>
            ELSE /\ parse_policy_input(Strip(raw)) = <<>>
                 /\ policy_input' = Strip(raw)
                 /\ policy_list' = parse_policy_input(Strip(raw))
    /\ pc' = "enum"
    /\ max_workers' = 1
    /\ UNCHANGED <<max_pool, S3_MAX_POOL, shift, store, more, idx, scanned, futures, fstate,
                   fresult, batch, results_by_policy, report_lines>>
    /\ UNCHANGED scanVars
    /\ UNCHANGED callVars

\* An empty bucket name or an empty policy list: main returns.
InputError ==
    /\ pc = "start"
    /\ \E b \in Buckets, raw \in RawInputs :
         /\ bucket' = Strip(b)
         /\ IF Strip(b) = <<>>
            THEN UNCHANGED <<policy_input, policy_list>>
            ELSE /\ parse_policy_input(Strip(raw)) = <<>>
                 /\ policy_input' = Strip(raw)
                 /\ policy_list' = parse_policy_input(Strip(raw))
    /\ pc' = "exit"
    /\ UNCHANGED <<max_workers, max_pool, S3_MAX_POOL, shift, store, more, idx, scanned, futures, fstate,
                   fresult, batch, results_by_policy, report_lines>>
    /\ UNCHANGED scanVars
    /\ UNCHANGED callVars

\* ThreadPoolExecutor(max_workers=0) raises ValueError.
BadWorkers ==
    /\ pc = "start"
    /\ \E b \in Buckets, raw \in RawInputs :
         /\ Strip(b) # <<>>
         /\ parse_policy_input(Strip(raw)) # <<>>
         /\ bucket' = Strip(b)
         /\ policy_input' = Strip(raw)
         /\ policy_list' = parse_policy_input(Strip(raw))
    /\ max_workers' = 0
    /\ max_pool' = int(environ_get(S3_MAX_POOL, DefaultMaxPool))
    /\ results_by_policy' = [p \in Range(policy_list') |-> <<>>]
    /\ pc' = "aborted"
    /\ UNCHANGED <<S3_MAX_POOL, shift, store, more, idx, scanned, futures, fstate, fresult,
                   batch, report_lines>>
    /\ UNCHANGED scanVars
    /\ UNCHANGED callVars

Setup ==
    /\ pc = "start"
    /\ \E b \in Buckets, raw \in RawInputs :
         /\ Strip(b) # <<>>
         /\ parse_policy_input(Strip(raw)) # <<>>
         /\ bucket' = Strip(b)
         /\ policy_input' = Strip(raw)
         /\ policy_list' = parse_policy_input(Strip(raw))
    /\ max_workers' \in 1..MaxWorkers
    /\ max_pool' = int(environ_get(S3_MAX_POOL, DefaultMaxPool))
    /\ results_by_policy' = [p \in Range(policy_list') |-> <<>>]
    /\ pc' = "enum"
    /\ UNCHANGED <<S3_MAX_POOL, shift, store, more, idx, scanned, futures, fstate, fresult,
                   batch, report_lines>>
    /\ UNCHANGED scanVars
    /\ UNCHANGED callVars

(***************************************************************************)
(* iter_txt_keys (lines 71-78), driven by the for loop of line 142.        *)
(***************************************************************************)
\* The key passes the filter of line 76.
IsTxtKey(key) == ~EndsWith(key, <<"/">>) /\ EndsWith(Lower(key), TXT)

\* The paginator fetches the next page: n entries, and whether more follow.
FetchPage ==
    /\ pc = "enum"
    /\ more
    /\ idx = Len(store)
    /\ \E n \in 0..PageSize :
         /\ Len(store) + n <= MaxEntries
         /\ store' = store \o [i \in 1..n |-> EntryOf(Len(store) + i, shift)]
         /\ more' \in IF n = PageSize /\ Len(store) + n < MaxEntries
                      THEN BOOLEAN ELSE {FALSE}
    /\ UNCHANGED <<pc, bucket, policy_input, policy_list, max_workers, max_pool, S3_MAX_POOL, shift, idx, scanned,
                   futures, fstate, fresult, batch, results_by_policy,
                   report_lines>>
    /\ UNCHANGED scanVars
    /\ UNCHANGED callVars

\* ListFail with the exception swallowed: the for loop ends as if the listing
\* were exhausted and the final drain starts.
ListFail_Swallowed ==
    /\ pc = "enum"
    /\ more
    /\ idx = Len(store)
    /\ batch' = Range(futures)
    /\ pc' = IF batch' = {} THEN "report" ELSE "final"
    /\ UNCHANGED <<bucket, policy_input, policy_list, max_workers, max_pool, S3_MAX_POOL, shift, store, more, idx,
                   scanned, futures, fstate, fresult, results_by_policy,
                   report_lines>>
    /\ UNCHANGED scanVars
    /\ UNCHANGED callVars

\* The listing call fails: the exception leaves the with block, whose exit
\* waits for the submitted scans.
ListFail ==
    /\ pc = "enum"
    /\ more
    /\ idx = Len(store)
    /\ pc' = "unwinding"
    /\ UNCHANGED <<bucket, policy_input, policy_list, max_workers, max_pool, S3_MAX_POOL, shift, store, more, idx,
                   scanned, futures, fstate, fresult, batch, results_by_policy,
                   report_lines>>
    /\ UNCHANGED scanVars
    /\ UNCHANGED callVars

\* EnumSkip counting the entry it skips.
EnumSkip_Counts ==
    /\ pc = "enum"
    /\ idx < Len(store)
    /\ ~IsTxtKey(store[idx + 1].key)
    /\ idx' = idx + 1
    /\ scanned' = scanned + 1
    /\ UNCHANGED <<pc, bucket, policy_input, policy_list, max_workers, max_pool, S3_MAX_POOL, shift, store, more,
                   futures, fstate, fresult, batch, results_by_policy,
                   report_lines>>
    /\ UNCHANGED scanVars
    /\ UNCHANGED callVars

\* An entry that is a folder marker or no .txt object: continue.
EnumSkip ==
    /\ pc = "enum"
    /\ idx < Len(store)
    /\ ~IsTxtKey(store[idx + 1].key)
    /\ idx' = idx + 1
    /\ UNCHANGED <<pc, bucket, policy_input, policy_list, max_workers, max_pool, S3_MAX_POOL, shift, store, more,
                   scanned, futures, fstate, fresult, batch, results_by_policy,
                   report_lines>>
    /\ UNCHANGED scanVars
    /\ UNCHANGED callVars

\* FirstN taking the newest futures.
FirstN_Newest(s, n) == SubSeq(s, IF n < Len(s) THEN Len(s) - n + 1 ELSE 1, Len(s))

\* The futures the running as_completed still has to yield, from first to last.
FirstN(s, n) == SubSeq(s, 1, IF n < Len(s) THEN n ELSE Len(s))

\* if len(futures) >= inflight_limit, with a late test as its variant
AtCapacity_Late(n) == n > inflight_limit

AtCapacity(n) == n >= inflight_limit

\* A key is yielded: lines 143-147.
Submit ==
    /\ pc = "enum"
    /\ idx < Len(store)
    /\ IsTxtKey(store[idx + 1].key)
    /\ idx' = idx + 1
    /\ scanned' = scanned + 1
    /\ fstate' = [fstate EXCEPT ![idx + 1] = "pending"]
    /\ futures' = Append(futures, idx + 1)
    /\ IF AtCapacity(Len(futures'))
       THEN /\ pc' = "batch"
            /\ batch' = Range(FirstN(futures', max_workers))
       ELSE /\ pc' = "enum"
            /\ batch' = batch
    /\ UNCHANGED <<bucket, policy_input, policy_list, max_workers, max_pool, S3_MAX_POOL, shift, store, more, fresult,
                   results_by_policy, report_lines>>
    /\ UNCHANGED scanVars
    /\ UNCHANGED callVars

\* as_completed(futures) of line 156: every future of the dict; its variant
\* waits for none.
DrainAll_None(futs) == {}

DrainAll(futs) == Range(futs)

\* The listing is exhausted: the for loop ends and the final drain starts.
EnumEnd ==
    /\ pc = "enum"
    /\ ~more
    /\ idx = Len(store)
    /\ batch' = DrainAll(futures)
    /\ pc' = IF batch' = {} THEN "report" ELSE "final"
    /\ UNCHANGED <<bucket, policy_input, policy_list, max_workers, max_pool, S3_MAX_POOL, shift, store, more, idx,
                   scanned, futures, fstate, fresult, results_by_policy,
                   report_lines>>
    /\ UNCHANGED scanVars
    /\ UNCHANGED callVars

(***************************************************************************)
(* The pool's workers: ThreadPoolExecutor(max_workers) of line 141 running *)
(* the calls submitted at line 144, oldest first.                          *)
(***************************************************************************)
Running == {i \in Ids : fstate[i] = "running"}

Pending == {i \in Ids : fstate[i] = "pending"}

\* How many threads the pool runs: ThreadPoolExecutor(max_workers=max_workers);
\* its variant is given the in-flight limit.
PoolSize_Inflight == inflight_limit

PoolSize == max_workers

WorkerStart(i) ==
    /\ fstate[i] = "pending"
    /\ \A j \in Pending : i <= j
    /\ Cardinality(Running) < PoolSize
    /\ fstate' = [fstate EXCEPT ![i] = "running"]
    /\ UNCHANGED <<pc, bucket, policy_input, policy_list, max_workers, max_pool, S3_MAX_POOL, shift, store, more, idx,
                   scanned, futures, fresult, batch, results_by_policy,
                   report_lines>>
    /\ UNCHANGED scanVars
    /\ UNCHANGED callVars

\* WorkerFinish with the worker appending its matches to the lists itself.
WorkerFinish_Merges(i) ==
    /\ fstate[i] = "running"
    /\ fstate' = [fstate EXCEPT ![i] = "finished"]
    /\ fresult' = [fresult EXCEPT ![i] = object_matching_policies_streaming(store[i], want_set)]
    /\ results_by_policy' =
         [p \in DOMAIN results_by_policy |->
            IF p \in fresult'[i].value
            THEN Append(results_by_policy[p], store[i].key)
            ELSE results_by_policy[p]]
    /\ UNCHANGED <<pc, bucket, policy_input, policy_list, max_workers, max_pool, S3_MAX_POOL, shift, store, more, idx,
                   scanned, futures, batch, report_lines>>
    /\ UNCHANGED scanVars
    /\ UNCHANGED callVars

\* The call returns or raises; the future keeps the outcome.
WorkerFinish(i) ==
    /\ fstate[i] = "running"
    /\ fstate' = [fstate EXCEPT ![i] = "finished"]
    /\ fresult' = [fresult EXCEPT ![i] = object_matching_policies_streaming(store[i], want_set)]
    /\ UNCHANGED <<pc, bucket, policy_input, policy_list, max_workers, max_pool, S3_MAX_POOL, shift, store, more, idx,
                   scanned, futures, batch, results_by_policy, report_lines>>
    /\ UNCHANGED scanVars
    /\ UNCHANGED callVars

(***************************************************************************)
(* Harvesting: lines 148-154 and 156-162.                                  *)
(***************************************************************************)
\* Pop reading the entry and leaving it in the dict.
Pop_Keep(s, x) == s

\* dict.pop(key) on the insertion-ordered dict
Pop(s, x) == SelectSeq(s, LAMBDA y : y # x)

\* Merge storing the key in place of the list.
Merge_Overwrite(results, res, k) ==
    IF res.raised THEN results
    ELSE [p \in DOMAIN results |-> IF p \in res.value THEN <<k>> ELSE results[p]]

\* Merge appending the key to every policy's list.
Merge_AllKeys(results, res, k) ==
    IF res.raised THEN results
    ELSE [p \in DOMAIN results |-> Append(results[p], k)]

\* try: for pol in done.result(): results_by_policy[pol].append(k)
\* except Exception: pass
Merge(results, res, k) ==
    IF res.raised THEN results
    ELSE [p \in DOMAIN results |->
            IF p \in res.value THEN Append(results[p], k) ELSE results[p]]

\* Where the driving thread is after the body of a harvest loop, whose
\* except clause swallows what done.result() raises: in the loop while
\* as_completed has futures left to yield, past it otherwise.  In the variant
\* the exception leaves the loop and the with block.
AfterHarvest_Propagate(res, rest, inLoop, pastLoop) ==
    IF res.raised THEN "unwinding"
    ELSE IF rest = {} THEN pastLoop ELSE inLoop

AfterHarvest(res, rest, inLoop, pastLoop) ==
    IF rest = {} THEN pastLoop ELSE inLoop

\* as_completed yields a finished future of the batch; the body of the loop.
HarvestBatch(i) ==
    /\ pc = "batch"
    /\ i \in batch
    /\ fstate[i] = "finished"
    /\ futures' = Pop(futures, i)
    /\ results_by_policy' = Merge(results_by_policy, fresult[i], store[i].key)
    /\ batch' = batch \ {i}
    /\ pc' = AfterHarvest(fresult[i], batch', "batch", "enum")
    /\ UNCHANGED <<bucket, policy_input, policy_list, max_workers, max_pool, S3_MAX_POOL, shift, store, more, idx,
                   scanned, fstate, fresult, report_lines>>
    /\ UNCHANGED scanVars
    /\ UNCHANGED callVars

HarvestFinal(i) ==
    /\ pc = "final"
    /\ i \in batch
    /\ fstate[i] = "finished"
    /\ futures' = Pop(futures, i)
    /\ results_by_policy' = Merge(results_by_policy, fresult[i], store[i].key)
    /\ batch' = batch \ {i}
    /\ pc' = AfterHarvest(fresult[i], batch', "final", "report")
    /\ UNCHANGED <<bucket, policy_input, policy_list, max_workers, max_pool, S3_MAX_POOL, shift, store, more, idx,
                   scanned, fstate, fresult, report_lines>>
    /\ UNCHANGED scanVars
    /\ UNCHANGED callVars

\* The with block is left by the listing's exception once every submitted
\* call has finished (shutdown(wait=True)); main ends with that exception.
Abort ==
    /\ pc = "unwinding"
    /\ \A i \in Ids : fstate[i] \in {"none", "finished"}
    /\ pc' = "aborted"
    /\ UNCHANGED <<bucket, policy_input, policy_list, max_workers, max_pool, S3_MAX_POOL, shift, store, more, idx,
                   scanned, futures, fstate, fresult, batch, results_by_policy,
                   report_lines>>
    /\ UNCHANGED scanVars
    /\ UNCHANGED callVars

(***************************************************************************)
(* The report: lines 167-187.  A line of the report is a record: what kind *)
(* of line it is, its text and its number.                                 *)
(***************************************************************************)
RECURSIVE Join(_, _)
Join(parts, sep) ==
    IF parts = <<>> THEN <<>>
    ELSE IF Len(parts) = 1 THEN Head(parts)
    ELSE Head(parts) \o sep \o Join(Tail(parts), sep)

ReportLine(kind, text, number) == [kind |-> kind, text |-> text, number |-> number]

\* The lines of one policy's section.
Section(pol, files) ==
    <<ReportLine("policy", pol, 0)>>
    \o (IF files # <<>>
        THEN [i \in 1..Len(files) |-> ReportLine("file", files[i], 0)]
             \o <<ReportLine("count", <<>>, Len(files))>>
        ELSE <<ReportLine("nofiles", <<>>, 0)>>)

\* The sections from the last policy to the first.
RECURSIVE Sections_Reversed(_, _)
Sections_Reversed(pols, results) ==
    IF pols = <<>> THEN <<>>
    ELSE Sections_Reversed(Tail(pols), results)
         \o Section(Head(pols), results[Head(pols)])

\* for pol in policy_list: ... (lines 175-187)
RECURSIVE Sections(_, _)
Sections(pols, results) ==
    IF pols = <<>> THEN <<>>
    ELSE Section(Head(pols), results[Head(pols)]) \o Sections(Tail(pols), results)

Render ==
    /\ pc = "report"
    /\ report_lines' =
         <<ReportLine("policies", Join(policy_list, <<",", " ">>), 0),
           ReportLine("scanned", <<>>, scanned)>>
         \o Sections(policy_list, results_by_policy)
    /\ pc' = "done"
    /\ UNCHANGED <<bucket, policy_input, policy_list, max_workers, max_pool, S3_MAX_POOL, shift, store, more, idx,
                   scanned, futures, fstate, fresult, batch, results_by_policy>>
    /\ UNCHANGED scanVars
    /\ UNCHANGED callVars

Next ==
    \/ InputError
    \/ BadWorkers
    \/ Setup
    \/ FetchPage
    \/ ListFail
    \/ EnumSkip
    \/ Submit
    \/ EnumEnd
    \/ \E i \in Ids : WorkerStart(i)
    \/ \E i \in Ids : WorkerFinish(i)
    \/ \E i \in Ids : HarvestBatch(i)
    \/ \E i \in Ids : HarvestFinal(i)
    \/ Abort
    \/ Render

Spec == Init /\ [][Next]_vars

\* Every thread that can take a step eventually takes one.
SpecFair == Spec /\ WF_vars(Next)

\* main run under any of the sample settings of S3_MAX_POOL.
InitEnv ==
    /\ SchedInit
    /\ S3_MAX_POOL \in PoolEnv
    /\ shift \in 0..MaxShift
    /\ ScanOff
    /\ CallOff

SpecEnv == InitEnv /\ [][Next]_vars

(***************************************************************************)
(* The scanner called on its own, on every body of at most MaxLines sample *)
(* lines.                                                                  *)
(***************************************************************************)
ScanObjects ==
    [key : {<<"o">> \o TXT},
     lines : SeqsUpTo(SampleLines, MaxLines),
     err : BOOLEAN,
     printErr : BOOLEAN]

\* main is not run.
SchedOff ==
    /\ pc = "off"
    /\ bucket = <<>>
    /\ policy_input = <<>>
    /\ policy_list = <<>>
    /\ max_workers = 0
    /\ max_pool = 0
    /\ S3_MAX_POOL = None
    /\ shift = 0
    /\ store = <<>>
    /\ more = FALSE
    /\ idx = 0
    /\ scanned = 0
    /\ futures = <<>>
    /\ fstate = [i \in Ids |-> "none"]
    /\ fresult = [i \in Ids |-> NoResult]
    /\ batch = {}
    /\ results_by_policy = <<>>
    /\ report_lines = <<>>

InitScan ==
    /\ SchedOff
    /\ scan_pc = "call"
    /\ scan_obj \in ScanObjects
    /\ scan_want \in SUBSET {K12, K34}
    /\ scan_ret = NoResult
    /\ CallOff

ScanReturn ==
    /\ scan_pc = "call"
    /\ scan_ret' = object_matching_policies_streaming(scan_obj, scan_want)
    /\ ~scan_ret'.raised
    /\ scan_pc' = "returned"
    /\ UNCHANGED <<scan_obj, scan_want>>
    /\ UNCHANGED schedVars
    /\ UNCHANGED callVars

ScanRaise ==
    /\ scan_pc = "call"
    /\ scan_ret' = object_matching_policies_streaming(scan_obj, scan_want)
    /\ scan_ret'.raised
    /\ scan_pc' = "raised"
    /\ UNCHANGED <<scan_obj, scan_want>>
    /\ UNCHANGED schedVars
    /\ UNCHANGED callVars

NextScan == ScanReturn \/ ScanRaise

SpecScan == InitScan /\ [][NextScan]_vars

(***************************************************************************)
(* policy_in_line called on its own, on lines cut at several lengths.      *)
(***************************************************************************)
LinePrefixes == {Rep("x", 5), <<"x", "x", "x", "3", "4">>, Rep(" ", 5)}

\* What the slice holds before padding: a key at its start, at its end, with
\* spaces inside, after a tab; nothing; all of its columns.
LineFields ==
    {K12, K34, Rep(" ", 16) \o K12, <<" ", "1", " ", "2">>, <<"\t">> \o K12,
     <<>>, Rep("9", POLICY_SLICE_stop - POLICY_SLICE_start)}

LineRests == {<<>>, <<"z">>, K12, <<" ">>}

LineCuts == {0, 5, 6, 22}

LineInputs ==
    LET full == {LineOf(p, f, r) : p \in LinePrefixes, f \in LineFields, r \in LineRests}
    IN full \cup {SubSeq(l, 1, n) : l \in full, n \in LineCuts}

InitLine ==
    /\ SchedOff
    /\ ScanOff
    /\ fn_pc = "call_policy_in_line"
    /\ fn_arg \in LineInputs
    /\ fn_ret = <<>>

LineReturn ==
    /\ fn_pc = "call_policy_in_line"
    /\ fn_ret' = policy_in_line(fn_arg)
    /\ fn_pc' = "ret_policy_in_line"
    /\ UNCHANGED fn_arg
    /\ UNCHANGED schedVars
    /\ UNCHANGED scanVars

NextLine == LineReturn

SpecLine == InitLine /\ [][NextLine]_vars

(***************************************************************************)
(* parse_policy_input called on its own, on every answer of at most MaxRaw *)
(* characters and on the sample answers.                                   *)
(***************************************************************************)
RawAlphabet == {"1", "2", " ", "\t", ",", "\n"}

\* " 12 34 ,1234"
RawSpaced ==
    <<" ", "1", "2", " ", "3", "4", " ", ",", "1", "2", "3", "4">>

ParseInputs == SeqsUpTo(RawAlphabet, MaxRaw) \cup RawInputs \cup {RawSpaced}

InitParse ==
    /\ SchedOff
    /\ ScanOff
    /\ fn_pc = "call_parse_policy_input"
    /\ fn_arg \in ParseInputs
    /\ fn_ret = <<>>

ParseReturn ==
    /\ fn_pc = "call_parse_policy_input"
    /\ fn_ret' = parse_policy_input(fn_arg)
    /\ fn_pc' = "ret_parse_policy_input"
    /\ UNCHANGED fn_arg
    /\ UNCHANGED schedVars
    /\ UNCHANGED scanVars

NextParse == ParseReturn

SpecParse == InitParse /\ [][NextParse]_vars

(***************************************************************************)
(* Properties of the scanner.                                              *)
(***************************************************************************)
\* The field of the i-th line of the object the scanner reads.
FieldOfLine(i) == policy_in_line(decode(scan_obj.lines[i]))

ScanLines == Len(scan_obj.lines)

\* C2: when the body ends normally after N >= 2 lines, the call returns the
\* wanted keys that are the field of one of the lines 2..N-1; a key found only
\* in line 1 or line N is not returned.
C2_DataLinesOnly ==
    (scan_pc # "call" /\ ~scan_obj.printErr /\ ~scan_obj.err /\ ScanLines >= 2) =>
        /\ scan_pc = "returned"
        /\ scan_ret.value =
             {k \in scan_want : \E i \in 2..(ScanLines - 1) : FieldOfLine(i) = k}

\* A body of three lines whose header and trailer hold one wanted key and
\* whose data line holds the other: only the other is returned.
C2_Witness ==
    /\ scan_pc = "returned"
    /\ ~scan_obj.err
    /\ ScanLines = 3
    /\ scan_want = {K12, K34}
    /\ FieldOfLine(1) = K34
    /\ FieldOfLine(3) = K34
    /\ scan_ret.value = {K12}

\* C3: a body of no line or one line gives the empty set and the call does
\* not raise, whether the body ends or reading it fails.
C3_ShortBodyEmpty ==
    (scan_pc # "call" /\ ~scan_obj.printErr /\ ScanLines < 2) =>
        /\ scan_pc = "returned"
        /\ scan_ret = [raised |-> FALSE, value |-> {}]

\* A body of one line that holds a wanted key: nothing is returned.
C3_Witness ==
    /\ scan_pc = "returned"
    /\ ~scan_obj.err
    /\ ScanLines = 1
    /\ FieldOfLine(1) \in scan_want
    /\ scan_ret.value = {}

\* A string without the whitespace at its ends and without its spaces.
TrimmedNoSpace(f) ==
    LET ns == {i \in 1..Len(f) : f[i] \notin Whitespace}
    IN IF ns = {} THEN <<>>
       ELSE LET a == CHOOSE i \in ns : \A j \in ns : i <= j
                b == CHOOSE i \in ns : \A j \in ns : j <= i
            IN SelectSeq(SubSeq(f, a, b), LAMBDA c : c # " ")

\* C11: policy_in_line gives no value for a line of fewer than 23 characters;
\* for a longer line it gives the 18 characters of columns 6..23, trimmed and
\* without spaces, whatever columns 1..5 and the columns after 23 hold.
C11_FieldColumns ==
    fn_pc = "ret_policy_in_line" =>
        IF Len(fn_arg) < 23
        THEN fn_ret = None
        ELSE fn_ret = TrimmedNoSpace([i \in 1..18 |-> fn_arg[5 + i]])

\* A line with 34 in columns 4-5, 12 in columns 22-23 and 12 in columns 24-25:
\* the field is 12.
C11_Witness ==
    /\ fn_pc = "ret_policy_in_line"
    /\ Len(fn_arg) = 25
    /\ SubSeq(fn_arg, 4, 5) = K34
    /\ SubSeq(fn_arg, 22, 25) = K12 \o K12
    /\ fn_ret = K12

\* C14: when fetching the object or reading its stream fails (lines 41-64,
\* after the progress line was printed), at get_object, at the first line or
\* after wanted keys were seen in data lines, the call returns the empty set
\* and raises nothing.
C14_ReadFailureReturnsEmpty ==
    (scan_pc # "call" /\ scan_obj.err /\ ~scan_obj.printErr) =>
        /\ scan_pc = "returned"
        /\ scan_ret = [raised |-> FALSE, value |-> {}]

\* Reading fails after the third line, the second line holding a wanted key
\* that the loop had already added to found: nothing is returned.
C14_Witness ==
    /\ scan_pc = "returned"
    /\ scan_obj.err
    /\ ScanLines = 3
    /\ FieldOfLine(2) \in scan_want
    /\ ScanLoop(Tail(scan_obj.lines), None, {}, scan_want) # {}
    /\ scan_ret.value = {}

(***************************************************************************)
(* Properties of the scheduler.                                            *)
(***************************************************************************)
\* The entries the enumerator has yielded: the futures submitted so far.
Submitted == {i \in Ids : fstate[i] # "none"}

\* Submitted and not yet popped from futures.
Unharvested == Range(futures)

Finished == pc \in {"report", "done"}

\* C1: the futures table never holds more than inflight_limit futures.
C1_InflightCap == Cardinality(Unharvested) <= inflight_limit

\* The table is full with two workers, and no scan of the table has finished.
C1_Witness ==
    /\ pc = "batch"
    /\ max_workers = 2
    /\ Len(futures) = inflight_limit
    /\ \A i \in Unharvested : fstate[i] # "finished"

\* What the scan of entry i gives for the run's keys, from the entry alone.
ScanOf(i) == object_matching_policies_streaming(store[i], want_set)

\* The keys of the listed .txt objects whose scan gives k.
Expected(k) ==
    {store[i].key : i \in {j \in 1..Len(store) :
                             /\ IsTxtKey(store[j].key)
                             /\ ~ScanOf(j).raised
                             /\ k \in ScanOf(j).value}}

\* C4: when the drains are over, every key's result, as a set, is what the
\* listed objects and the keys determine, whatever order the scans completed in.
C4_OrderIndependent ==
    Finished =>
        /\ DOMAIN results_by_policy = want_set
        /\ \A k \in want_set : Range(results_by_policy[k]) = Expected(k)

\* Two objects match the same key and the later one was merged first.
C4_Witness ==
    /\ Finished
    /\ \E k \in want_set :
         \E a, b \in 1..Len(results_by_policy[k]) :
            \E i, j \in Submitted :
               /\ a < b
               /\ i < j
               /\ results_by_policy[k][a] = store[j].key
               /\ results_by_policy[k][b] = store[i].key

\* C5: a key's list only ever holds objects whose finished scan returned that
\* key, and at the end it holds every such object.
C5_MergedIffReturned ==
    /\ \A k \in DOMAIN results_by_policy :
         \A n \in 1..Len(results_by_policy[k]) :
            \E i \in Submitted :
               /\ store[i].key = results_by_policy[k][n]
               /\ fstate[i] = "finished"
               /\ ~fresult[i].raised
               /\ k \in fresult[i].value
    /\ Finished =>
         \A i \in Submitted : \A k \in want_set :
            (store[i].key \in Range(results_by_policy[k]))
               <=> (~fresult[i].raised /\ k \in fresult[i].value)

\* The run is over, one object is in both lists, one in one list only and
\* one in neither list.
C5_Witness ==
    /\ Finished
    /\ want_set = {K12, K34}
    /\ \E i, j, n \in Submitted :
         /\ store[i].key \in Range(results_by_policy[K12])
         /\ store[i].key \in Range(results_by_policy[K34])
         /\ store[j].key \in Range(results_by_policy[K12])
         /\ store[j].key \notin Range(results_by_policy[K34])
         /\ store[n].key \notin Range(results_by_policy[K12])
         /\ store[n].key \notin Range(results_by_policy[K34])

\* C9: at most max_workers scans run at once.
C9_WorkerBound == Cardinality(Running) <= max_workers

\* Two scans run and submitted scans wait for a worker.
C9_Witness ==
    /\ max_workers = 2
    /\ Cardinality(Running) = 2
    /\ Cardinality(Pending) >= 2

\* C6: an object whose read fails is returned as "no match"; harvesting its
\* future changes no list and leaves the driving thread in its harvest loop,
\* or past it when the loop is over; at the end the object is in no list, it
\* is counted in scanned, and every object read without failure is listed
\* exactly under the keys its own scan gives.
ReadFailed(i) == i \in Submitted /\ store[i].err /\ ~store[i].printErr

C6_ReadFailureIsNoMatch ==
    /\ [](\A i \in Ids :
            (ReadFailed(i) /\ fstate[i] = "finished") => fresult[i] = NoResult)
    /\ [][\A i \in Ids :
            (ReadFailed(i) /\ i \in Unharvested /\ i \notin Range(futures')) =>
                /\ results_by_policy' = results_by_policy
                /\ pc' \in {"batch", "enum", "final", "report"}]_vars
    /\ [](Finished =>
            /\ scanned = Cardinality(Submitted)
            /\ \A i \in Submitted : \A k \in want_set :
                 IF store[i].err
                 THEN store[i].key \notin Range(results_by_policy[k])
                 ELSE (store[i].key \in Range(results_by_policy[k]))
                         <=> (~ScanOf(i).raised /\ k \in ScanOf(i).value))

\* The run is over; a read failed after a data line with a wanted key had been
\* seen; the object is counted and other objects are listed.
C6_Witness ==
    /\ pc = "done"
    /\ \E i \in Submitted :
         /\ ReadFailed(i)
         /\ Len(store[i].lines) >= 2
         /\ policy_in_line(decode(store[i].lines[2])) \in want_set
         /\ \A k \in want_set : store[i].key \notin Range(results_by_policy[k])
    /\ scanned = Cardinality(Submitted)
    /\ \A k \in want_set : results_by_policy[k] # <<>>

\* The future of entry i holds an exception and is still in the table.
RaisedInTable(i) ==
    i \in Unharvested /\ fstate[i] = "finished" /\ fresult[i].raised

\* C7: the step that harvests a future whose result() raises changes no list,
\* pops that future alone and leaves the driving thread in its harvest loop,
\* or past it when the loop is over; the object of such a future is in no list.
C7_RaisedScanSkipped ==
    /\ [][\A i \in Ids :
            (RaisedInTable(i) /\ i \notin Range(futures')) =>
                /\ results_by_policy' = results_by_policy
                /\ futures' = Pop(futures, i)
                /\ scanned' = scanned
                /\ pc' = IF batch \ {i} # {} THEN pc
                         ELSE IF pc = "batch" THEN "enum" ELSE "report"]_vars
    /\ [](\A i \in Submitted :
            (fstate[i] = "finished" /\ fresult[i].raised) =>
                \A k \in DOMAIN results_by_policy :
                    store[i].key \notin Range(results_by_policy[k]))

\* A batch drain harvested a future that raised, a list filled before it is
\* kept, and a further object was submitted after the drain.
C7_Witness ==
    /\ pc = "enum"
    /\ max_workers = 2
    /\ Len(futures) = inflight_limit - max_workers + 1
    /\ \E i \in Submitted \ Unharvested : fresult[i].raised
    /\ \E k \in want_set : results_by_policy[k] # <<>>

\* The texts of the report's lines of one kind, in order.
LinesOfKind(kind) ==
    LET sel == SelectSeq(report_lines, LAMBDA l : l.kind = kind)
    IN [n \in 1..Len(sel) |-> sel[n].text]

\* The file lines that follow line n of the report, up to the next line that
\* is no file line.
FilesAfter(n) ==
    LET stop == IF \E m \in (n + 1)..Len(report_lines) : report_lines[m].kind # "file"
                THEN CHOOSE m \in (n + 1)..Len(report_lines) :
                        /\ report_lines[m].kind # "file"
                        /\ \A q \in (n + 1)..(m - 1) : report_lines[q].kind = "file"
                ELSE Len(report_lines) + 1
    IN [q \in 1..(stop - n - 1) |-> report_lines[n + q].text]

\* The keys typed at the prompt, normalized, in the order typed.
TypedKeys ==
    LET parts == Split(Replace(policy_input, "\n", <<",">>), ",")
        norm == [n \in 1..Len(parts) |-> normalize_policy(parts[n])]
    IN SelectSeq(norm, LAMBDA k : k # <<>>)

\* s holds each element of the sequence typed once, in the order of its
\* first occurrence there.
IsFirstOccurrenceOrder(s, typed) ==
    /\ Range(s) = Range(typed)
    /\ \A a, b \in 1..Len(s) : a # b => s[a] # s[b]
    /\ \A a, b \in 1..Len(s) :
         a < b =>
            (CHOOSE n \in 1..Len(typed) :
                typed[n] = s[a] /\ \A m \in 1..(n - 1) : typed[m] # s[a])
            < (CHOOSE n \in 1..Len(typed) :
                typed[n] = s[b] /\ \A m \in 1..(n - 1) : typed[m] # s[b])

\* C8: the report's policy sections are in the order in which the keys were
\* first typed, and each section lists that policy's own matches.
C8_ReportInInputOrder ==
    pc = "done" =>
        /\ IsFirstOccurrenceOrder(LinesOfKind("policy"), TypedKeys)
        /\ \A n \in 1..Len(report_lines) :
             report_lines[n].kind = "policy" =>
                FilesAfter(n) = results_by_policy[report_lines[n].text]

\* A key typed twice, two sections with different lists, and within a list an
\* object listed later that was merged first.
C8_Witness ==
    /\ pc = "done"
    /\ Len(TypedKeys) > Len(policy_list)
    /\ LinesOfKind("policy") = <<K12, K34>>
    /\ results_by_policy[K12] # <<>>
    /\ results_by_policy[K34] # <<>>
    /\ results_by_policy[K12] # results_by_policy[K34]
    /\ \E a, b \in 1..Len(results_by_policy[K34]) :
         \E i, j \in Submitted :
            /\ a < b
            /\ i < j
            /\ results_by_policy[K34][a] = store[j].key
            /\ results_by_policy[K34][b] = store[i].key

\* C12: once the prompts gave an empty bucket name or an empty policy list,
\* main has returned: no page of the listing was asked for, no scan was
\* submitted and no report was rendered.
C12_InputErrorBeforeScan ==
    (pc # "start" /\ (bucket = <<>> \/ policy_list = <<>>)) =>
        /\ pc = "exit"
        /\ more
        /\ store = <<>>
        /\ idx = 0
        /\ scanned = 0
        /\ futures = <<>>
        /\ Submitted = {}
        /\ results_by_policy = <<>>
        /\ report_lines = <<>>

\* A bucket was given and the policy prompt's answer has separators only.
C12_Witness ==
    /\ pc = "exit"
    /\ bucket # <<>>
    /\ policy_input # <<>>
    /\ policy_list = <<>>
    /\ more
    /\ store = <<>>

\* The listing call failed: its exception is on its way out of main, or out.
ListingFailed == pc = "unwinding" \/ (pc = "aborted" /\ max_workers > 0)

\* C13: after a failed listing call the driving thread never lists, submits,
\* harvests or renders again and no report exists; a report is only ever
\* rendered after the listing was gone through to its last page.
C13_ListingFailureAborts ==
    /\ [][ListingFailed =>
            /\ ListingFailed'
            /\ UNCHANGED <<store, more, idx, scanned, futures, batch,
                           results_by_policy, report_lines>>]_vars
    /\ [](ListingFailed => report_lines = <<>>)
    /\ [](Finished => (~more /\ idx = Len(store)))

\* The listing failed on a later page, after a batch drain had merged matches
\* and with scans still in the table: main is left without a report.
C13_Witness ==
    /\ pc = "aborted"
    /\ max_workers > 0
    /\ more
    /\ Len(store) > PageSize
    /\ futures # <<>>
    /\ \E k \in want_set : results_by_policy[k] # <<>>
    /\ report_lines = <<>>

\* A step that submits a scan.
Submits == Len(futures') > Len(futures)

\* C15: a scan is submitted only with fewer than inflight_limit futures in the
\* table; the submission that fills the table starts a drain of the
\* max_workers oldest futures of the table; until they are all harvested,
\* each after it finished, nothing is submitted and no other future is
\* harvested; the drain leaves inflight_limit - max_workers futures.
C15_BatchDrain ==
    /\ [][Submits =>
            /\ Len(futures) < inflight_limit
            /\ pc = "enum"
            /\ IF Len(futures') = inflight_limit
               THEN /\ pc' = "batch"
                    /\ Cardinality(batch') = max_workers
                    /\ batch' \subseteq Range(futures')
                    /\ \A i \in batch' : \A j \in Range(futures') \ batch' : i < j
               ELSE pc' = "enum"]_vars
    /\ [][pc = "batch" =>
            /\ ~Submits
            /\ idx' = idx
            /\ futures' # futures =>
                  \E i \in batch :
                     /\ fstate[i] = "finished"
                     /\ futures' = Pop(futures, i)
                     /\ batch' = batch \ {i}
            /\ pc' # "batch" =>
                  /\ pc' = "enum"
                  /\ batch' = {}
                  /\ Len(futures') = inflight_limit - max_workers]_vars
    /\ [](pc = "batch" =>
            /\ batch # {}
            /\ batch \subseteq Range(futures)
            /\ Len(futures) = inflight_limit - max_workers + Cardinality(batch))

\* A drain with two workers just ended: the two oldest of eight futures were
\* harvested and the six newest are in the table.
C15_Witness ==
    /\ pc = "enum"
    /\ max_workers = 2
    /\ scanned = inflight_limit
    /\ Len(futures) = inflight_limit - max_workers
    /\ \A i \in Submitted \ Unharvested : \A j \in Unharvested : i < j
    /\ Cardinality(Submitted \ Unharvested) = max_workers

\* Sequence s is the start of sequence t.
IsPrefix(s, t) == Len(s) <= Len(t) /\ SubSeq(t, 1, Len(s)) = s

\* C16: a step keeps every list of results_by_policy as the start of the
\* list it leaves; the lists change only in a harvest step of the driving
\* thread, which pops the harvested future; a step in which a scan is
\* submitted, started or finished changes no list.
C16_SingleWriterMonotone ==
    /\ [][\A k \in DOMAIN results_by_policy :
            /\ k \in DOMAIN results_by_policy'
            /\ IsPrefix(results_by_policy[k], results_by_policy'[k])]_vars
    /\ [][(pc # "start" /\ results_by_policy' # results_by_policy) =>
            /\ pc \in {"batch", "final"}
            /\ \E i \in batch :
                  /\ futures' = Pop(futures, i)
                  /\ futures' # futures
                  /\ \A k \in DOMAIN results_by_policy :
                       results_by_policy'[k] \in
                          {results_by_policy[k],
                           Append(results_by_policy[k], store[i].key)}]_vars
    /\ [][fstate' # fstate => results_by_policy' = results_by_policy]_vars

\* A list has grown, a finished scan that matched is still waiting for the
\* driving thread to merge it, and another scan is running.
C16_Witness ==
    /\ pc = "final"
    /\ Running # {}
    /\ \E k \in want_set :
         /\ results_by_policy[k] # <<>>
         /\ \E i \in Unharvested :
               /\ fstate[i] = "finished"
               /\ k \in fresult[i].value
               /\ store[i].key \notin Range(results_by_policy[k])

\* No element occurs twice in sequence s.
NoDuplicates(s) == \A a, b \in 1..Len(s) : a # b => s[a] # s[b]

\* The futures a drain has harvested.
Harvested == Submitted \ Unharvested

\* C17: the future a drain yields is in the table, has finished and leaves
\* the table in that step; a harvested future is never in the table or in a
\* drain again; the report is rendered with every submitted future harvested;
\* no list ever holds an object twice.
C17_HarvestedOnce ==
    /\ [][\A i \in Ids :
            (pc \in {"batch", "final"} /\ i \in batch /\ i \notin batch') =>
                /\ i \in Unharvested
                /\ fstate[i] = "finished"
                /\ i \notin Range(futures')]_vars
    /\ [][\A i \in Harvested : i \notin Range(futures') /\ i \notin batch']_vars
    /\ [](NoDuplicates(futures) /\ batch \subseteq Unharvested)
    /\ [](Finished => Harvested = Submitted)
    /\ [](\A k \in DOMAIN results_by_policy : NoDuplicates(results_by_policy[k]))

\* The run is over after two batch drains at least and the final drain, and a
\* list holds two objects.
C17_Witness ==
    /\ pc = "done"
    /\ max_workers = 1
    /\ scanned > inflight_limit + 1
    /\ Harvested = Submitted
    /\ \E k \in want_set : Len(results_by_policy[k]) = 2

\* The entries, among the first n of the listing, that iter_txt_keys yields.
Yielded(n) == {i \in 1..n : IsTxtKey(store[i].key)}

\* C18: scanned is the number of harvested futures plus the number of futures
\* in the table, and the number of objects the enumerator has yielded so
\* far; the report gives the number of objects yielded from the whole
\* listing, whatever their scans gave.
C18_ScannedCount ==
    /\ scanned = Cardinality(Harvested) + Len(futures)
    /\ scanned = Cardinality(Yielded(idx))
    /\ Finished => scanned = Cardinality(Yielded(Len(store)))
    /\ pc = "done" =>
          \E n \in 1..Len(report_lines) :
             /\ report_lines[n].kind = "scanned"
             /\ report_lines[n].number = Cardinality(Yielded(Len(store)))

\* The report counts the objects that matched, the object whose scan raised
\* and the objects whose read failed, and not the entries that were skipped.
C18_Witness ==
    /\ pc = "done"
    /\ 0 < scanned
    /\ scanned < Len(store)
    /\ \E i \in Submitted : fresult[i].raised
    /\ \E i \in Submitted : store[i].err
    /\ \E i \in Submitted : fresult[i].value # {}
    /\ \E i \in Submitted : ~fresult[i].raised /\ ~store[i].err /\ fresult[i].value = {}

\* The positions that end a part of the raw answer: its separators and its end.
PartEnds(raw) == {i \in 1..Len(raw) : raw[i] \in {",", "\n"}} \cup {Len(raw) + 1}

\* The m-th part of the raw answer: what lies between two separators.
PartAt(raw, m) ==
    LET e == CHOOSE x \in PartEnds(raw) :
                Cardinality({y \in PartEnds(raw) : y < x}) = m - 1
        b == IF \E y \in PartEnds(raw) : y < e
             THEN CHOOSE y \in PartEnds(raw) :
                     y < e /\ \A z \in PartEnds(raw) : z < e => z <= y
             ELSE 0
    IN SubSeq(raw, b + 1, e - 1)

\* The keys of the parts that hold one, in the order typed.
KeysTyped(raw) ==
    SelectSeq([m \in 1..Cardinality(PartEnds(raw)) |-> TrimmedNoSpace(PartAt(raw, m))],
              LAMBDA k : k # <<>>)

\* C19: parse_policy_input returns keys that are not empty and hold no space;
\* the list holds each key of the answer's parts once, in the order of the
\* keys' first occurrence; normalizing a key again leaves it as it is, so two
\* parts that differ in their spaces only give one entry.
C19_OrderedDeduped ==
    fn_pc = "ret_parse_policy_input" =>
        /\ \A n \in 1..Len(fn_ret) :
              /\ fn_ret[n] # <<>>
              /\ " " \notin Range(fn_ret[n])
              /\ normalize_policy(fn_ret[n]) = fn_ret[n]
        /\ IsFirstOccurrenceOrder(fn_ret, KeysTyped(fn_arg))

\* " 12 34 ,1234" gives the one key 1234.
C19_Witness ==
    /\ fn_pc = "ret_parse_policy_input"
    /\ fn_arg = RawSpaced
    /\ fn_ret = <<<<"1", "2", "3", "4">>>>

\* C20: once main has read its tunables, the client's connection pool is at
\* least as large as the worker pool.
C20_PoolCoversWorkers ==
    pc \notin {"start", "exit"} => max_pool >= max_workers

\* The run of main is over.
Terminated == pc \in {"exit", "aborted", "done"}

\* C10: the run ends; a batch drain ends and enumeration resumes; the final
\* drain ends and the report follows; and the report is rendered with an
\* empty futures table and every submitted scan finished.
C10_RunTerminates ==
    /\ <>Terminated
    /\ (pc = "batch") ~> (pc = "enum")
    /\ (pc = "final") ~> (pc = "done")
    /\ [](Finished =>
            /\ futures = <<>>
            /\ \A i \in Submitted : fstate[i] = "finished")

\* The run is over after a batch drain and a final drain with two workers.
C10_Witness ==
    /\ pc = "done"
    /\ max_workers = 2
    /\ scanned > inflight_limit
    /\ futures = <<>>

====
